---------------------------- MODULE Spec2Model ----------------------------
(***************************************************************************)
(* A model of the Handel aggregation node (handel.go) and of its candidate *)
(* tree (tree.go).                                                         *)
(*                                                                         *)
(* Every Handel instance is one record h[n], whose fields carry the names  *)
(* of the Go struct.  A handler of the Go code is an operator that maps    *)
(* the instance before the call to the instance after it together with     *)
(* the packets it handed to Network.Send; the actions at the end of the    *)
(* module apply these operators to h[n] and to the network.                *)
(*                                                                         *)
(* A multi-signature is represented by the set of the registry ids that    *)
(* contributed to it (its bit-set) and by a flag telling whether the       *)
(* aggregate signature verifies for that set.                              *)
(***************************************************************************)
EXTENDS Integers, Sequences, FiniteSets, TLC

VARIABLES
    h,      \* h[n]: the Handel instance of registry id n
    net,    \* packets handed to Network.Send and not yet delivered
    local,  \* the registry ids whose Handel instance runs in this system
    dropped,\* the number of packets the network has lost
    tree    \* a candidateTree and what FullRange has returned for it

vars == <<h, net, local, dropped, tree>>

---------------------------------------------------------------------------
(* Sizes.                                                                  *)

\* Registry.Size(): the number of identities, a power of two.
N == 4

\* The registry id of the instance that is run against an arbitrary network.
Anchor == 1

\* Capacity of the pipeline's Incoming stream.
IncomingCap == 1

\* Capacity of the pipeline's Verified stream.
VerifiedCap == 1

\* The statistics counters are only ever written; the model stops counting
\* at this value so that the state space stays finite.
MaxCount == 2

\* The number of packets a lossy network loses.
MaxDrops == 1

Nodes == 0 .. (N - 1)

\* The element of a singleton: The({F(x) : x \in {e}}) is F(e), with e
\* evaluated once.
The(S) == CHOOSE x \in S : TRUE

Min(a, b) == IF a < b THEN a ELSE b

RECURSIVE log2(_)
\* log2(n): the number of levels for a registry of n identities
\* (ceil(log2 n); n is a power of two in every use).
log2(n) == IF n <= 1 THEN 0 ELSE 1 + log2((n + 1) \div 2)

---------------------------------------------------------------------------
(* tree.go                                                                 *)

RECURSIVE Pow2(_)
Pow2(k) == IF k = 0 THEN 1 ELSE 2 * Pow2(k - 1)

\* isSet without the mask: (nb >> index) == 1
isSet_NoMask(nb, index) == (nb \div Pow2(index)) = 1

\* isSet(nb, index): ((nb >> index) & 1) == 1
isSet(nb, index) == ((nb \div Pow2(index)) % 2) = 1

\* Registry.Identities(from, to): the ids of [from, to), and whether both
\* endpoints are inside [0, size].
Identities(size, from, to) ==
    IF from < 0 \/ from > size \/ to < 0 \/ to > size \/ from > to
    THEN [ids |-> << >>, ok |-> FALSE]
    ELSE [ids |-> [i \in 1 .. (to - from) |-> from + i - 1], ok |-> TRUE]

RECURSIVE RangeWalk_NoInversion(_, _, _, _, _, _)
\* The loop of FullRange without the inversion at the last bit: it ends in
\* the half the anchor is in.
RangeWalk_NoInversion(id, size, maxIdx, idx, min, max) ==
    IF ~(idx >= maxIdx /\ min <= max)
    THEN <<min, max>>
    ELSE LET middle == (max + min) \div 2
             min2 == IF isSet(id, idx) THEN middle ELSE min
             max2 == IF isSet(id, idx) THEN max ELSE middle
         IN  IF max2 = min2 THEN <<min2, max2>>
             ELSE IF max2 - 1 = 0 \/ min2 = size THEN <<min2, max2>>
             ELSE RangeWalk_NoInversion(id, size, maxIdx, idx - 1, min2, max2)

RECURSIVE RangeWalk_EarlyExit(_, _, _, _, _, _)
\* The loop of FullRange leaving at max-1 <= 1 for max-1 == 0.
RangeWalk_EarlyExit(id, size, maxIdx, idx, min, max) ==
    IF ~(idx >= maxIdx /\ min <= max)
    THEN <<min, max>>
    ELSE LET middle == (max + min) \div 2
             min2 == IF isSet(id, idx)
                     THEN (IF idx = maxIdx THEN min ELSE middle)
                     ELSE (IF idx = maxIdx THEN middle ELSE min)
             max2 == IF isSet(id, idx)
                     THEN (IF idx = maxIdx THEN middle ELSE max)
                     ELSE (IF idx = maxIdx THEN max ELSE middle)
         IN  IF max2 = min2 THEN <<min2, max2>>
             ELSE IF max2 - 1 <= 1 \/ min2 = size THEN <<min2, max2>>
             ELSE RangeWalk_EarlyExit(id, size, maxIdx, idx - 1, min2, max2)

RECURSIVE RangeWalk(_, _, _, _, _, _)
\* The loop of FullRange from bit idx downwards: the interval [min, max)
\* with which the loop ends.
RangeWalk(id, size, maxIdx, idx, min, max) ==
    IF ~(idx >= maxIdx /\ min <= max)
    THEN <<min, max>>
    ELSE LET middle == (max + min) \div 2
             min2 == IF isSet(id, idx)
                     THEN (IF idx = maxIdx THEN min ELSE middle)
                     ELSE (IF idx = maxIdx THEN middle ELSE min)
             max2 == IF isSet(id, idx)
                     THEN (IF idx = maxIdx THEN middle ELSE max)
                     ELSE (IF idx = maxIdx THEN max ELSE middle)
         IN  IF max2 = min2 THEN <<min2, max2>>
             ELSE IF max2 - 1 = 0 \/ min2 = size THEN <<min2, max2>>
             ELSE RangeWalk(id, size, maxIdx, idx - 1, min2, max2)

\* FullRange accepting one level beyond bitsize.
FullRange_LevelBeyond(id, size, level) ==
    IF level < 1 \/ level > log2(size) + 1
    THEN [ids |-> << >>, err |-> TRUE]
    ELSE LET r  == RangeWalk(id, size, level - 1, log2(size) - 1, 0, size)
             rg == Identities(size, r[1], r[2])
         IN  IF ~rg.ok THEN [ids |-> << >>, err |-> TRUE]
             ELSE [ids |-> rg.ids, err |-> FALSE]

\* candidateTree.FullRange(level) of the tree anchored at id over a registry
\* of the given size: the identities of the level, and the error flag.
FullRange(id, size, level) ==
    IF level < 1 \/ level > log2(size)
    THEN [ids |-> << >>, err |-> TRUE]
    ELSE LET r  == RangeWalk(id, size, level - 1, log2(size) - 1, 0, size)
             rg == Identities(size, r[1], r[2])
         IN  IF ~rg.ok THEN [ids |-> << >>, err |-> TRUE]
             ELSE [ids |-> rg.ids, err |-> FALSE]

\* Partitioner.PickNextAt(level, count): up to count identities of the
\* level's candidate set.
PartitionerPickNextAt(id, size, level, count) ==
    LET fr == FullRange(id, size, level)
    IN  IF fr.err THEN << >> ELSE SubSeq(fr.ids, 1, Min(count, Len(fr.ids)))

SeqToSet(s) == {s[i] : i \in 1 .. Len(s)}

\* newCandidateTree(id, reg) for a registry of the given size; got records
\* what FullRange has returned, by level, and set what isSet has returned
\* for the bits of id, by index.
newCandidateTree(id, size) ==
    [id |-> id, bitsize |-> log2(size), size |-> size, got |-> << >>,
     set |-> << >>]


---------------------------------------------------------------------------
(* Configuration (Config, resolved at construction).                       *)

\* Config.LevelTimeout in milliseconds.
LevelTimeout == 100

\* Config.CandidateCount by default.
DefaultCandidateCount == 10

\* Config.ContributionsThreshold by default.
ContributionsThreshold(n) == (n + 1) \div 2 + 1

\* t.Sub(h.startTime) while startTime is still the zero time.Time: the
\* duration saturates, and the milliseconds exceed every level's timeout.
ZeroStartMs == 2000000000

---------------------------------------------------------------------------
(* Level (handel.go)                                                       *)

NewLevel(id, nodes) ==
    [id           |-> id,
     nodes        |-> nodes,
     sendStarted  |-> (id = 1),
     rcvCompleted |-> (id = 1),
     sendPos      |-> 0,
     sendPeersCt  |-> 0,
     sendSigSize  |-> 0]

createLevels(size, id) ==
    [i \in 1 .. log2(size) |->
        NewLevel(i, PartitionerPickNextAt(id, size, i, size + 1))]

\* Level.PickNextAt(count): the identities picked and the level afterwards.
LevelPickNextAt(c, count) ==
    LET len  == Len(c.nodes)
        size == Min(count, len)
    IN  [res |-> [i \in 1 .. size |-> c.nodes[((c.sendPos + i - 1) % len) + 1]],
         l   |-> [c EXCEPT !.sendPos     = IF size = 0 THEN c.sendPos
                                           ELSE (c.sendPos + size) % len,
                           !.sendPeersCt = c.sendPeersCt + size]]

\* Level.updateSigToSend(sig), sig given by its cardinality: the level
\* afterwards and the value returned.
updateSigToSend(l, card) ==
    IF l.sendSigSize >= card
    THEN [l |-> l, ret |-> FALSE]
    ELSE IF card = Len(l.nodes)
         THEN [l   |-> [l EXCEPT !.sendSigSize = card, !.sendPeersCt = 0,
                                 !.sendStarted = TRUE],
               ret |-> TRUE]
         ELSE [l   |-> [l EXCEPT !.sendSigSize = card, !.sendPeersCt = 0],
               ret |-> FALSE]

---------------------------------------------------------------------------
(* Signature store (replace store): per level the best bit-set seen.      *)

MaxLevel == log2(N)

EmptyStore == [k \in 0 .. MaxLevel |-> {}]

\* Store(level, ms): keep ms only if it has strictly more contributors.
Store(st, level, bits) ==
    IF level \in DOMAIN st /\ Cardinality(bits) > Cardinality(st[level])
    THEN [st EXCEPT ![level] = bits]
    ELSE st

Best(st, level) == st[level]

\* Combined(level): what the node knows of the sub-tree it presents at the
\* next level, the union of the best signatures of levels 0 .. level.
Combined(st, level) ==
    UNION {st[k] : k \in {j \in DOMAIN st : j <= level}}

FullSignature(st) == UNION {st[k] : k \in DOMAIN st}

---------------------------------------------------------------------------
(* Multi-signatures on the wire.                                           *)

\* MultiSignature.MarshalBinary
Marshal(bits) == [enc |-> "ok", bits |-> bits, sigok |-> TRUE]

\* MultiSignature.Unmarshal: the signature read, and the error flag.
Unmarshal(buff) ==
    IF buff.enc = "ok"
    THEN [ms |-> [bits |-> buff.bits, sigok |-> buff.sigok], err |-> FALSE]
    ELSE [ms |-> [bits |-> {}, sigok |-> FALSE], err |-> TRUE]

\* A counter of HStats after one increment.
Incr(ct) == IF ct < MaxCount THEN ct + 1 ELSE ct

---------------------------------------------------------------------------
(* Handel (handel.go).  Every operator below returns the instance after    *)
(* the call; those that can reach Network.Send return the record           *)
(* [h |-> instance, sent |-> packets handed to the network].               *)

\* NewHandel: the instance of node id after construction, with the given
\* CandidateCount in its configuration.
NewHandel(id, candidateCount) ==
    [id            |-> id,
     c             |-> [CandidateCount |-> candidateCount],
     threshold     |-> ContributionsThreshold(N),
     levels        |-> createLevels(N, id),
     store         |-> Store(EmptyStore, 0, {id}),
     best          |-> << >>,       \* nil, or the best final signature
     out           |-> << >>,       \* what was sent on the out channel
     outClosed     |-> FALSE,       \* close(h.out) has run
     panicked      |-> FALSE,       \* a handler panicked
     done          |-> FALSE,
     started       |-> FALSE,       \* Start has set startTime
     elapsed       |-> 0,           \* time since startTime, in LevelTimeouts
     tickerStopped |-> FALSE,
     procStopped   |-> FALSE,
     incoming      |-> << >>,       \* proc.Incoming()
     verified      |-> << >>,       \* proc.Verified()
     cur           |-> << >>,       \* rangeOnVerified: v stored, lock not yet taken
     ran           |-> << >>,       \* the actors of the last dispatch, in order
     blocked       |-> << >>,       \* NewPacket: holds the lock, waits on Incoming
     stats         |-> [msgSentCt |-> 0, msgRcvCt |-> 0]]

\* The aggregator lock is free: no NewPacket call is suspended inside its
\* critical section (every other critical section is one step).
LockFree(hh) == hh.blocked = << >>

\* Handel.sendTo(lvl, ms, ids)
sendTo(hh, lvl, bits, ids) ==
    [h    |-> [hh EXCEPT !.stats.msgSentCt = Incr(hh.stats.msgSentCt)],
     sent |-> {[dest |-> ids[i], Origin |-> hh.id, Level |-> lvl,
                MultiSig |-> Marshal(bits)] : i \in 1 .. Len(ids)}]

\* sendUpdate sending Combined(l.id) for Combined(l.id - 1).
sendUpdate_OwnLevel(hh, l, count) ==
    IF ~l.sendStarted \/ l.sendPeersCt >= Len(l.nodes)
    THEN [h |-> hh, sent |-> {}]
    ELSE LET sp   == Combined(hh.store, l.id)
             pick == LevelPickNextAt(l, count)
         IN  sendTo(hh, l.id, sp, pick.res)

\* Handel.sendUpdate(l, count).  l is passed by value: what PickNextAt
\* writes into it (sendPos, sendPeersCt) stays in the callee's copy.
sendUpdate(hh, l, count) ==
    IF ~l.sendStarted \/ l.sendPeersCt >= Len(l.nodes)
    THEN [h |-> hh, sent |-> {}]
    ELSE LET sp   == Combined(hh.store, l.id - 1)
             pick == LevelPickNextAt(l, count)
         IN  sendTo(hh, l.id, sp, pick.res)

\* One iteration of the loop of periodicUpdate.  lvl is the range
\* variable, a copy of h.levels[i]: setting sendStarted changes the copy.
periodicBody(hh, msSinceStart, i) ==
    LET lvl0 == hh.levels[i]
        lvl  == IF ~lvl0.sendStarted
                   /\ msSinceStart >= (lvl0.id - 1) * LevelTimeout
                THEN [lvl0 EXCEPT !.sendStarted = TRUE]
                ELSE lvl0
    IN  sendUpdate(hh, lvl, 1)

RECURSIVE periodicLoop(_, _, _, _)
\* The loop of periodicUpdate from level index i on.
periodicLoop(hh, msSinceStart, i, sent) ==
    IF i > Len(hh.levels)
    THEN [h |-> hh, sent |-> sent]
    ELSE The({periodicLoop(r.h, msSinceStart, i + 1, sent \cup r.sent) :
                 r \in {periodicBody(hh, msSinceStart, i)}})

\* Handel.periodicUpdate(t), t given by the milliseconds since startTime.
periodicUpdate(hh, msSinceStart) == periodicLoop(hh, msSinceStart, 1, {})

\* int(t.Sub(h.startTime).Seconds() * 1000) for the current time t.
msSinceStartNow(hh) ==
    IF hh.started THEN hh.elapsed * LevelTimeout ELSE ZeroStartMs

\* One iteration of the sending phase of checkCompletedLevel.  lvl is a
\* copy of h.levels[i-1]; updateSigToSend writes into the copy.
completedBody(hh, i) ==
    LET lvl == hh.levels[i]
        ms  == Combined(hh.store, lvl.id - 1)
        u   == updateSigToSend(lvl, Cardinality(ms))
    IN  IF u.ret THEN sendUpdate(hh, u.l, hh.c.CandidateCount)
        ELSE [h |-> hh, sent |-> {}]

RECURSIVE completedLoop(_, _, _)
\* The sending phase of checkCompletedLevel from level i on.
completedLoop(hh, i, sent) ==
    IF i > Len(hh.levels)
    THEN [h |-> hh, sent |-> sent]
    ELSE The({completedLoop(r.h, i + 1, sent \cup r.sent) :
                 r \in {completedBody(hh, i)}})

\* Handel.checkCompletedLevel(s).  The receiving phase sets rcvCompleted in
\* lvl, a copy of h.levels[s.level-1].
checkCompletedLevel(hh, s) == completedLoop(hh, s.level + 1, {})

\* newBest inside checkFinalSignature
newBest(hh, sig) ==
    IF hh.done THEN hh
    ELSE [hh EXCEPT !.best = <<sig>>, !.out = Append(hh.out, sig)]

\* checkFinalSignature without the comparison against the threshold.
checkFinalSignature_NoThreshold(hh, s) ==
    LET sig == FullSignature(hh.store)
    IN  IF hh.best = << >> THEN newBest(hh, sig)
        ELSE IF Cardinality(sig) > Cardinality(hh.best[1]) THEN newBest(hh, sig)
        ELSE hh

\* checkFinalSignature with newCard >= local for newCard > local.
checkFinalSignature_NotStrict(hh, s) ==
    LET sig == FullSignature(hh.store)
    IN  IF Cardinality(sig) < hh.threshold THEN hh
        ELSE IF hh.best = << >> THEN newBest(hh, sig)
        ELSE IF Cardinality(sig) >= Cardinality(hh.best[1]) THEN newBest(hh, sig)
        ELSE hh

\* Handel.checkFinalSignature(s)
checkFinalSignature(hh, s) ==
    LET sig == FullSignature(hh.store)
    IN  IF Cardinality(sig) < hh.threshold THEN hh
        ELSE IF hh.best = << >> THEN newBest(hh, sig)
        ELSE IF Cardinality(sig) > Cardinality(hh.best[1]) THEN newBest(hh, sig)
        ELSE hh

\* h.actors as NewHandel registers them.
actors == <<"checkCompletedLevel", "checkFinalSignature">>

\* actor.OnVerifiedSignature(s) for the actor named a; ran records the
\* actors of the current dispatch in the order they ran.
OnVerifiedSignature(hh, a, s) ==
    The({[h |-> [r.h EXCEPT !.ran = Append(hh.ran, a)], sent |-> r.sent] :
            r \in {IF a = "checkCompletedLevel"
                    THEN checkCompletedLevel(hh, s)
                    ELSE [h |-> checkFinalSignature(hh, s), sent |-> {}]}})

RECURSIVE actorLoop(_, _, _, _, _)
\* for _, actor := range h.actors, from the i-th actor of the list as on.
actorLoop(hh, as, i, s, sent) ==
    IF i > Len(as)
    THEN [h |-> hh, sent |-> sent]
    ELSE The({actorLoop(r.h, as, i + 1, s, sent \cup r.sent) :
                 r \in {OnVerifiedSignature(hh, as[i], s)}})

\* The dispatch with the two actors registered in the other order.
runActors_Reversed(hh, s) ==
    The({actorLoop(h1, <<actors[2], actors[1]>>, 1, s, {}) :
            h1 \in {[hh EXCEPT !.ran = << >>]}})

\* The actors in registration order, under the lock (rangeOnVerified).
runActors(hh, s) ==
    The({actorLoop(h1, actors, 1, s, {}) : h1 \in {[hh EXCEPT !.ran = << >>]}})

\* parsePacket counting only the packets it rejects.
parsePacket_CountRejected(hh, p) ==
    LET h1 == [hh EXCEPT !.stats.msgRcvCt = Incr(hh.stats.msgRcvCt)]
    IN  IF p.Origin >= N
        THEN [h |-> h1, ms |-> [bits |-> {}, sigok |-> FALSE], err |-> TRUE]
        ELSE IF p.Level < 1 \/ p.Level > log2(N)
        THEN [h |-> h1, ms |-> [bits |-> {}, sigok |-> FALSE], err |-> TRUE]
        ELSE LET u == Unmarshal(p.MultiSig)
             IN  [h |-> IF u.err THEN h1 ELSE hh, ms |-> u.ms, err |-> u.err]

\* Handel.parsePacket(p): the instance afterwards (msgRcvCt), the
\* multi-signature and the error flag.
parsePacket(hh, p) ==
    LET h1 == [hh EXCEPT !.stats.msgRcvCt = Incr(hh.stats.msgRcvCt)]
    IN  IF p.Origin >= N
        THEN [h |-> h1, ms |-> [bits |-> {}, sigok |-> FALSE], err |-> TRUE]
        ELSE IF p.Level < 1 \/ p.Level > log2(N)
        THEN [h |-> h1, ms |-> [bits |-> {}, sigok |-> FALSE], err |-> TRUE]
        ELSE LET u == Unmarshal(p.MultiSig)
             IN  [h |-> h1, ms |-> u.ms, err |-> u.err]

\* The send h.proc.Incoming() <- pair inside NewPacket: it completes when
\* the stream has room, and otherwise suspends the call with the lock held.
sendIncoming(hh, pair) ==
    IF Len(hh.incoming) < IncomingCap
    THEN [hh EXCEPT !.incoming = Append(hh.incoming, pair)]
    ELSE [hh EXCEPT !.blocked = <<pair>>]

\* NewPacket without the test of h.done.
NewPacketH_NoDone(hh, p) ==
    LET r == parsePacket(hh, p)
    IN  IF r.err THEN r.h
        ELSE sendIncoming(r.h, [origin |-> p.Origin, level |-> p.Level,
                                ms |-> r.ms])

\* Handel.NewPacket(p)
NewPacketH(hh, p) ==
    IF hh.done THEN hh
    ELSE LET r == parsePacket(hh, p)
         IN  IF r.err THEN r.h
             ELSE sendIncoming(r.h, [origin |-> p.Origin, level |-> p.Level,
                                     ms |-> r.ms])

\* Handel.Start
StartH(hh) ==
    The({periodicUpdate(h1, 0) :
            h1 \in {[hh EXCEPT !.started = TRUE, !.elapsed = 0]}})

\* Handel.Stop.  close(h.out) on a closed channel panics.
StopH(hh) ==
    LET h1 == [hh EXCEPT !.tickerStopped = TRUE, !.procStopped = TRUE,
                         !.done = TRUE]
    IN  IF hh.outClosed THEN [h1 EXCEPT !.panicked = TRUE]
        ELSE [h1 EXCEPT !.outClosed = TRUE]

\* The pipeline worker: take the head of Incoming, verify it, forward it to
\* Verified iff it verifies.
workerStep(hh) ==
    LET pair == Head(hh.incoming)
    IN  IF pair.ms.sigok
        THEN [hh EXCEPT !.incoming = Tail(hh.incoming),
                        !.verified = Append(hh.verified, pair)]
        ELSE [hh EXCEPT !.incoming = Tail(hh.incoming)]

\* rangeOnVerified, first half: receive v and h.store.Store(v.level, v.ms).
storeVerified(hh) ==
    LET v == Head(hh.verified)
    IN  [hh EXCEPT !.verified = Tail(hh.verified),
                   !.store    = Store(hh.store, v.level, v.ms.bits),
                   !.cur      = <<v>>]

\* rangeOnVerified, second half: h.Lock(), the actors, h.Unlock().
dispatchActors(hh) ==
    The({[h |-> [r.h EXCEPT !.cur = << >>], sent |-> r.sent] :
            r \in {runActors(hh, hh.cur[1])}})

---------------------------------------------------------------------------
(* Inputs.                                                                 *)

\* The values of Config.CandidateCount the model is run with.
CandidateCounts == {1, DefaultCandidateCount}

LevelIds(n, l) == SeqToSet(FullRange(n, N, l).ids)

SetMin(S) == CHOOSE x \in S : \A y \in S : x <= y

\* Well-formed packets for node n that carry a verifying signature, as an
\* honest sender produces them: for every level the contributor sets that
\* hold the sender (the lowest id of the level) and grow in id order.
GoodPackets(n) ==
    {[Origin |-> SetMin(LevelIds(n, l)), Level |-> l,
      MultiSig |-> Marshal({i \in LevelIds(n, l) : i < SetMin(LevelIds(n, l)) + k})] :
        <<l, k>> \in {x \in (1 .. MaxLevel) \X (1 .. N) :
                        x[2] <= Cardinality(LevelIds(n, x[1]))}}

\* Packets the listener may also be handed: origin or level out of range,
\* bytes that do not unmarshal, a signature that does not verify.
BadPackets(n) ==
    LET sib == LevelIds(n, 1)
        top == LevelIds(n, MaxLevel)
    IN  {[Origin |-> o, Level |-> 1, MultiSig |-> Marshal(sib)] : o \in {-1, N}}
        \cup {[Origin |-> SetMin(top), Level |-> l, MultiSig |-> Marshal(top)] :
                l \in {0, MaxLevel + 1}}
        \cup {[Origin |-> SetMin(sib), Level |-> 1,
               MultiSig |-> [enc |-> "garbled", bits |-> {}, sigok |-> FALSE]]}
        \cup {[Origin |-> SetMin(top), Level |-> MaxLevel,
               MultiSig |-> [enc |-> "ok", bits |-> top, sigok |-> FALSE]]}

\* The packets the network may hand to the listener of each node.
EnvPacketsOf == [n \in Nodes |-> GoodPackets(n) \cup BadPackets(n)]

EnvPackets(n) == EnvPacketsOf[n]

---------------------------------------------------------------------------
(* Actions.                                                                *)

Running(n) == n \in local /\ ~h[n].panicked

\* Network.Send: the packets for instances of this system are in flight.
Sent(sent) == net' = net \cup {s \in sent : s.dest \in local}

\* The network calls the listener of n with packet p.
NewPacket(n, p) ==
    /\ Running(n)
    /\ LockFree(h[n])
    /\ h' = [h EXCEPT ![n] = NewPacketH(h[n], p)]
    /\ UNCHANGED <<net, local, dropped, tree>>

\* A NewPacket call suspended on Incoming completes its send and returns.
NewPacketResume(n) ==
    /\ Running(n)
    /\ h[n].blocked # << >>
    /\ Len(h[n].incoming) < IncomingCap
    /\ h' = [h EXCEPT ![n] = [h[n] EXCEPT
                !.incoming = Append(h[n].incoming, h[n].blocked[1]),
                !.blocked  = << >>]]
    /\ UNCHANGED <<net, local, dropped, tree>>

\* The client calls Start.
Start(n) ==
    /\ Running(n)
    /\ LockFree(h[n])
    /\ ~h[n].started
    /\ LET r == StartH(h[n])
       IN  h' = [h EXCEPT ![n] = r.h] /\ Sent(r.sent)
    /\ UNCHANGED <<local, dropped, tree>>

\* The client calls Stop.
Stop(n) ==
    /\ Running(n)
    /\ LockFree(h[n])
    /\ h' = [h EXCEPT ![n] = StopH(h[n])]
    /\ UNCHANGED <<net, local, dropped, tree>>

\* The ticker goroutine of NewHandel: one tick.
Tick(n) ==
    /\ Running(n)
    /\ LockFree(h[n])
    /\ ~h[n].tickerStopped
    /\ LET r == periodicUpdate(h[n], msSinceStartNow(h[n]))
       IN  h' = [h EXCEPT ![n] = r.h] /\ Sent(r.sent)
    /\ UNCHANGED <<local, dropped, tree>>

\* One LevelTimeout of time passes at n (beyond the last level's timeout
\* the passing of time changes nothing).
TimePasses(n) ==
    /\ Running(n)
    /\ h[n].started
    /\ h[n].elapsed < MaxLevel - 1
    /\ h' = [h EXCEPT ![n].elapsed = h[n].elapsed + 1]
    /\ UNCHANGED <<net, local, dropped, tree>>

\* The pipeline worker (go h.proc.Start()) handles one pair.
Worker(n) ==
    /\ Running(n)
    /\ h[n].started
    /\ ~h[n].procStopped
    /\ h[n].incoming # << >>
    /\ (Head(h[n].incoming).ms.sigok => Len(h[n].verified) < VerifiedCap)
    /\ h' = [h EXCEPT ![n] = workerStep(h[n])]
    /\ UNCHANGED <<net, local, dropped, tree>>

\* rangeOnVerified receives the next verified pair and stores it.
ConsumerStore(n) ==
    /\ Running(n)
    /\ h[n].started
    /\ h[n].cur = << >>
    /\ h[n].verified # << >>
    /\ h' = [h EXCEPT ![n] = storeVerified(h[n])]
    /\ UNCHANGED <<net, local, dropped, tree>>

\* rangeOnVerified takes the lock and runs the actors on the pair.
ConsumerActors(n) ==
    /\ Running(n)
    /\ LockFree(h[n])
    /\ h[n].cur # << >>
    /\ LET r == dispatchActors(h[n])
       IN  h' = [h EXCEPT ![n] = r.h] /\ Sent(r.sent)
    /\ UNCHANGED <<local, dropped, tree>>

---------------------------------------------------------------------------
(* One aggregator against an arbitrary network: any packet at any time,    *)
(* the client calling Start and Stop at any time.                          *)

Init ==
    /\ h = [n \in Nodes |-> NewHandel(n, DefaultCandidateCount)]
    /\ net = {}
    /\ local = {Anchor}
    /\ dropped = 0
    /\ tree = newCandidateTree(Anchor, N)

Next ==
    \E n \in Nodes :
        \/ \E p \in EnvPackets(n) : NewPacket(n, p)
        \/ NewPacketResume(n)
        \/ Start(n)
        \/ Stop(n)
        \/ Tick(n)
        \/ TimePasses(n)
        \/ Worker(n)
        \/ ConsumerStore(n)
        \/ ConsumerActors(n)

Spec == Init /\ [][Next]_vars

---------------------------------------------------------------------------
(* Several aggregators over an in-memory network, run as a synchronous     *)
(* simulation: the instances are started before the network delivers to    *)
(* them, a delivery runs the listener, the pipeline worker and the         *)
(* verified consumer to completion, and a tick fires once the packets of   *)
(* the earlier ticks are delivered.  These runs are runs of the free       *)
(* interleaving of the actions above.                                      *)

PipelineEmpty(hh) ==
    hh.incoming = << >> /\ hh.verified = << >> /\ hh.cur = << >> /\ hh.blocked = << >>

\* rangeOnVerified on the pair in Verified, if the worker forwarded one.
verifiedSync(hh) ==
    IF hh.verified = << >> THEN [h |-> hh, sent |-> {}]
    ELSE The({dispatchActors(h3) : h3 \in {storeVerified(hh)}})

\* The worker on the pair in Incoming, if NewPacket admitted one, then the
\* verified consumer.
incomingSync(hh) ==
    IF hh.incoming = << >> THEN [h |-> hh, sent |-> {}]
    ELSE The({verifiedSync(h2) : h2 \in {workerStep(hh)}})

\* NewPacket(p), then the worker on the pair, then rangeOnVerified on it.
deliverSync(hh, p) == The({incomingSync(h1) : h1 \in {NewPacketH(hh, p)}})

\* The simulation has started every instance.
AllStarted == \A n \in local : h[n].started

\* Packet p can be delivered now.
Deliverable(p) ==
    /\ p \in net
    /\ Running(p.dest)
    /\ AllStarted /\ ~h[p.dest].procStopped
    /\ PipelineEmpty(h[p.dest])

\* The network delivers packet p to its destination.
Deliver(p) ==
    /\ Deliverable(p)
    /\ LET r == deliverSync(h[p.dest], [Origin |-> p.Origin, Level |-> p.Level,
                                        MultiSig |-> p.MultiSig])
       IN  /\ h' = [h EXCEPT ![p.dest] = r.h]
           /\ net' = (net \ {p}) \cup {s \in r.sent : s.dest \in local}
    /\ UNCHANGED <<local, dropped, tree>>

\* A tick of a started instance, the network being idle.
SyncTick(n) ==
    /\ net = {}
    /\ AllStarted
    /\ Tick(n)

\* Every instance runs, with either CandidateCount.
InitAll ==
    /\ \E cc \in CandidateCounts : h = [n \in Nodes |-> NewHandel(n, cc)]
    /\ net = {}
    /\ local = Nodes
    /\ dropped = 0
    /\ tree = newCandidateTree(Anchor, N)

NextReliable ==
    \/ \E n \in Nodes : Start(n)
    \/ \E n \in Nodes : SyncTick(n)
    \/ \E n \in Nodes : TimePasses(n)
    \/ \E p \in net : Deliver(p)

\* The scheduling of the simulation: every client calls Start, time passes,
\* every ticker keeps firing, every packet in flight is delivered.
FairReliable ==
    /\ \A n \in Nodes : WF_vars(Start(n))
    /\ \A n \in Nodes : WF_vars(TimePasses(n))
    /\ \A n \in Nodes : SF_vars(SyncTick(n))
    /\ WF_vars(\E p \in net : Deliver(p))

\* N honest participants, a reliable network.
SpecReliable == InitAll /\ [][NextReliable]_vars /\ FairReliable

\* The cardinalities instance n has emitted.
Emitted(n) == {Cardinality(h[n].out[i]) : i \in DOMAIN h[n].out}

\* C3: with N honest participants that all call Start, a reliable network
\* and fair scheduling, every participant eventually emits a multi-signature
\* of cardinality N.
C3_Completion == <>(\A n \in Nodes : N \in Emitted(n))

\* One participant is silent: its instance does not run, so that it never
\* sends; the others run the default configuration (threshold 3 of 4).
InitSilent ==
    /\ h = [n \in Nodes |-> NewHandel(n, DefaultCandidateCount)]
    /\ net = {}
    /\ \E s \in Nodes : local = Nodes \ {s}
    /\ dropped = 0
    /\ tree = newCandidateTree(Anchor, N)

SpecSilent == InitSilent /\ [][NextReliable]_vars /\ FairReliable

\* C4: with N = 4, threshold 3, a reliable network and one silent
\* participant, each of the three others eventually emits a multi-signature
\* of cardinality 3, whichever participant is silent.
C4_SilentParticipant == <>(\A n \in local : (N - 1) \in Emitted(n))

\* The network loses packet p; it loses at most MaxDrops packets, so that no
\* (sender, receiver, level) loses its packets forever.
Drop(p) ==
    /\ p \in net
    /\ dropped < MaxDrops
    /\ net' = net \ {p}
    /\ dropped' = dropped + 1
    /\ UNCHANGED <<h, local, tree>>

NextLossy ==
    \/ NextReliable
    \/ \E p \in net : Drop(p)

\* Every instance runs, with a CandidateCount below the size of the last
\* level (as the default of 10 is from 32 participants on).
InitLossy ==
    /\ \E cc \in CandidateCounts :
           /\ cc < N \div 2
           /\ h = [n \in Nodes |-> NewHandel(n, cc)]
    /\ net = {}
    /\ local = Nodes
    /\ dropped = 0
    /\ tree = newCandidateTree(Anchor, N)

\* A network that loses packets and delivers them in any order.
SpecLossy == InitLossy /\ [][NextLossy]_vars /\ FairReliable

\* C5: under message loss and reordering every live participant eventually
\* emits a multi-signature with at least threshold contributions.
C5_ProgressUnderLoss ==
    <>(\A n \in local : \E c \in Emitted(n) : c >= h[n].threshold)

---------------------------------------------------------------------------
(* Properties.                                                             *)

Card(S) == Cardinality(S)

\* The pairs inside the pipeline of an instance, the one NewPacket is
\* suspended on included.
Admitted(hh) == Len(hh.incoming) + Len(hh.blocked)

\* C1: every multi-signature on the output stream has at least threshold
\* contributors.
C1_EmittedAtLeastThreshold ==
    \A n \in Nodes : \A i \in DOMAIN h[n].out :
        Card(h[n].out[i]) >= h[n].threshold

C1_Witness ==
    \E n \in Nodes : h[n].out # << >> /\ h[n].stats.msgRcvCt > 0

\* C2: an emission is appended to the output stream, it becomes best, it
\* has at least as many contributors as every earlier emission, and strictly
\* more than the best it replaces.
C2_Step(n) ==
    h'[n].out # h[n].out =>
        /\ Len(h'[n].out) = Len(h[n].out) + 1
        /\ SubSeq(h'[n].out, 1, Len(h[n].out)) = h[n].out
        /\ h'[n].best = <<h'[n].out[Len(h'[n].out)]>>
        /\ \A i \in DOMAIN h[n].out :
              Card(h[n].out[i]) <= Card(h'[n].best[1])
        /\ h[n].best # << >> => Card(h'[n].best[1]) > Card(h[n].best[1])

C2_EmissionsNonDecreasing == [][\A n \in Nodes : C2_Step(n)]_vars

C2_Witness ==
    \E n \in Nodes :
        /\ Len(h[n].out) >= 2
        /\ Card(h[n].out[1]) < Card(h[n].out[2])

\* C6: a second call of Stop does not panic: close(h.out) runs only once.
C6_StopIdempotent == \A n \in Nodes : ~h[n].panicked

\* C7: once Stop has returned, a verified pair that rangeOnVerified still
\* handles changes neither the store nor the levels, sends nothing and
\* emits nothing.
C7_Step(n) ==
    (h[n].done /\ ~h'[n].panicked) =>
        /\ h'[n].store = h[n].store
        /\ h'[n].levels = h[n].levels
        /\ h'[n].out = h[n].out
        /\ (h[n].cur # << >> /\ h'[n].cur = << >>) =>
              dispatchActors(h[n]).sent = {}

C7_VerifiedDroppedAfterStop == [][\A n \in Nodes : C7_Step(n)]_vars

\* C8: once done is set, NewPacket(p) returns for every packet p with the
\* instance (levels, store, best, output stream, Incoming) as it was.
C8_NewPacketAfterDone ==
    \A n \in local :
        h[n].done => \A p \in EnvPackets(n) : NewPacketH(h[n], p) = h[n]

C8_Witness ==
    \E n \in local :
        /\ h[n].done /\ ~h[n].panicked /\ LockFree(h[n])
        /\ h[n].started /\ h[n].incoming = << >>
        /\ h[n].stats.msgRcvCt > 0

\* C9: every pair that reached Incoming has its origin in [0, N) and its
\* level in [1, log2 N]; a packet with another origin or level, or that does
\* not unmarshal, changes nothing but msgRcvCt.
InRange(pair) == pair.origin \in 0 .. (N - 1) /\ pair.level \in 1 .. log2(N)

Malformed(p) ==
    \/ p.Origin \notin 0 .. (N - 1)
    \/ p.Level \notin 1 .. log2(N)
    \/ Unmarshal(p.MultiSig).err

C9_MalformedDropped ==
    \A n \in local :
        /\ \A i \in DOMAIN h[n].incoming : InRange(h[n].incoming[i])
        /\ \A i \in DOMAIN h[n].blocked : InRange(h[n].blocked[i])
        /\ \A p \in EnvPackets(n) :
              (Malformed(p) /\ ~h[n].done) =>
                  NewPacketH(h[n], p) =
                      [h[n] EXCEPT !.stats.msgRcvCt = Incr(h[n].stats.msgRcvCt)]

\* C10: a call of NewPacket that admits a packet counts it once in msgRcvCt
\* (no step counts more than one), and storing a verified signature that has
\* no more contributors than the one the store holds at its level, as every
\* replay of a stored packet has, leaves the store as it is.
C10_Step(n) ==
    /\ h'[n].stats.msgRcvCt \in {h[n].stats.msgRcvCt, Incr(h[n].stats.msgRcvCt)}
    /\ Admitted(h'[n]) > Admitted(h[n]) =>
          h'[n].stats.msgRcvCt = Incr(h[n].stats.msgRcvCt)
    /\ (h[n].verified # << >> /\ h'[n].verified # h[n].verified
          /\ h'[n].cur = <<Head(h[n].verified)>>) =>
          LET v == Head(h[n].verified)
          IN  /\ Card(v.ms.bits) <= Card(Best(h[n].store, v.level)) =>
                    h'[n].store = h[n].store
              /\ Card(Best(h'[n].store, v.level)) >= Card(v.ms.bits)
              /\ Card(Best(h'[n].store, v.level)) >= Card(Best(h[n].store, v.level))

C10_Replay == [][\A n \in Nodes : C10_Step(n)]_vars

\* The same packet was admitted twice: one copy is stored, the next one is
\* the head of Verified.
C10_Witness ==
    \E n \in local :
        /\ h[n].cur # << >> /\ h[n].verified # << >>
        /\ Head(h[n].verified) = h[n].cur[1]
        /\ Best(h[n].store, h[n].cur[1].level) = h[n].cur[1].ms.bits
        /\ h[n].stats.msgRcvCt >= 2

\* C11: when Incoming is full the listener callback drops the admission and
\* returns: no call of NewPacket is ever suspended on its send to Incoming
\* with the aggregator lock held.
C11_Backpressure == \A n \in Nodes : h[n].blocked = << >>

---------------------------------------------------------------------------
(* The candidate tree on its own: any registry size 2^B, any anchor, and   *)
(* FullRange called for any level, valid or not.                           *)

\* The registries are of size 2^1 .. 2^MaxBits.
MaxBits == 4

TreeSizes == {Pow2(b) : b \in 1 .. MaxBits}

\* The levels FullRange is called with: 0 and two levels beyond bitsize are
\* the invalid ones.
QueryLevels(t) == 0 .. (t.bitsize + 2)

\* ct.FullRange(level): the result is recorded in got.
FullRangeCall(level) ==
    /\ level \in QueryLevels(tree)
    /\ level \notin DOMAIN tree.got
    /\ LET r == FullRange(tree.id, tree.size, level)
       IN  tree' = [tree EXCEPT !.got =
                       [k \in DOMAIN tree.got \cup {level} |->
                           IF k = level THEN r ELSE tree.got[k]]]
    /\ UNCHANGED <<h, net, local, dropped>>

InitTree ==
    /\ h = [n \in Nodes |-> NewHandel(n, DefaultCandidateCount)]
    /\ net = {}
    /\ local = {}
    /\ dropped = 0
    /\ \E size \in TreeSizes : \E id \in 0 .. (size - 1) :
          tree = newCandidateTree(id, size)

NextTree == \E level \in 0 .. (MaxBits + 2) : FullRangeCall(level)

SpecTree == InitTree /\ [][NextTree]_vars

\* The identities FullRange returned for level k.
GotIds(k) == SeqToSet(tree.got[k].ids)

\* The valid levels of the tree.
TreeLevels == 1 .. tree.bitsize

\* C12: the sets FullRange returns for the levels 1..B are pairwise
\* disjoint, the set of level k has exactly 2^(k-1) identities, the anchor is
\* in none of them, and together they are {0..N-1} without the anchor.
C12_Partition ==
    /\ \A k \in DOMAIN tree.got \cap TreeLevels :
          /\ Len(tree.got[k].ids) = Pow2(k - 1)
          /\ Cardinality(GotIds(k)) = Pow2(k - 1)
          /\ tree.id \notin GotIds(k)
          /\ GotIds(k) \subseteq 0 .. (tree.size - 1)
          /\ \A j \in DOMAIN tree.got \cap TreeLevels :
                j # k => GotIds(j) \cap GotIds(k) = {}
    /\ TreeLevels \subseteq DOMAIN tree.got =>
          UNION {GotIds(k) : k \in TreeLevels} = (0 .. (tree.size - 1)) \ {tree.id}

\* FullRange has been called for every level of a tree of 16 identities.
C12_Witness ==
    /\ tree.size = Pow2(MaxBits)
    /\ TreeLevels \subseteq DOMAIN tree.got
    /\ Cardinality(UNION {GotIds(k) : k \in TreeLevels}) = tree.size - 1

\* The identities that share the B-k most significant bits with a and
\* differ from a at bit k-1.
SiblingIds(a, size, k) ==
    {x \in 0 .. (size - 1) :
        /\ x \div Pow2(k) = a \div Pow2(k)
        /\ (x \div Pow2(k - 1)) % 2 # (a \div Pow2(k - 1)) % 2}

\* C13: for a valid level k FullRange returns exactly the identities that
\* share the B-k most significant bits with the anchor and differ from it at
\* bit k-1, as one contiguous interval in increasing order; for N = 16 and
\* anchor 1 these are [0,1), [2,4), [4,8), [8,16).
C13_Reference ==
    \A k \in DOMAIN tree.got \cap TreeLevels :
        LET ids == tree.got[k].ids
        IN  /\ GotIds(k) = SiblingIds(tree.id, tree.size, k)
            /\ Len(ids) = Cardinality(SiblingIds(tree.id, tree.size, k))
            /\ \A i \in 1 .. (Len(ids) - 1) : ids[i + 1] = ids[i] + 1
            /\ (tree.size = 16 /\ tree.id = 1) =>
                  /\ ids[1] = (IF k = 1 THEN 0 ELSE Pow2(k - 1))
                  /\ ids[Len(ids)] = (IF k = 1 THEN 0 ELSE Pow2(k) - 1)

\* FullRange was called for the last level of the tree of 16 identities
\* anchored at 1, and for a level where the walk ends on max = 1.
C13_Witness ==
    /\ tree.size = 16 /\ tree.id = 1
    /\ {1, 4} \subseteq DOMAIN tree.got
    /\ tree.got[4].ids[1] = 8 /\ Len(tree.got[4].ids) = 8
    /\ tree.got[1].ids = <<0>>

\* C14: FullRange returns an error, and no identities, exactly when the
\* level is below 1 or above bitsize.
C14_LevelError ==
    \A k \in DOMAIN tree.got :
        /\ tree.got[k].err <=> (k < 1 \/ k > tree.bitsize)
        /\ tree.got[k].err => tree.got[k].ids = << >>
        /\ ~tree.got[k].err => tree.got[k].ids # << >>

\* FullRange was called with level 0, with a level beyond bitsize and with
\* the two valid levels at the ends.
C14_Witness ==
    /\ {0, 1, tree.bitsize, tree.bitsize + 1} \subseteq DOMAIN tree.got
    /\ tree.got[0].err /\ tree.got[tree.bitsize + 1].err
    /\ ~tree.got[1].err /\ ~tree.got[tree.bitsize].err
    /\ tree.bitsize = MaxBits

---------------------------------------------------------------------------
(* The verified consumer and the level state.                              *)

\* The actors are about to run, or run in this step, for the pair cur[1].
C15_Stored(hh) ==
    hh.cur # << >> =>
        Card(Best(hh.store, hh.cur[1].level)) >= Card(hh.cur[1].ms.bits)

\* A step that runs the actors of instance n for the pair it has stored.
C15_Step(n) ==
    (h[n].cur # << >> /\ h'[n].cur = << >>) =>
        LET v  == h[n].cur[1]
            r1 == checkCompletedLevel(h[n], v)
            h2 == checkFinalSignature(r1.h, v)
        IN  /\ h'[n].ran = <<"checkCompletedLevel", "checkFinalSignature">>
            /\ h'[n] = [h2 EXCEPT !.cur = << >>, !.ran = h'[n].ran]
            /\ h'[n].store = h[n].store

\* C15: whenever the actors are invoked for a verified pair v the store holds
\* at level v.level a signature with at least as many contributors as v.ms,
\* and one dispatch runs checkCompletedLevel and then checkFinalSignature for
\* v, nothing else in between.
C15_StoreBeforeActors ==
    /\ [](\A n \in Nodes : C15_Stored(h[n]))
    /\ [][\A n \in Nodes : C15_Step(n)]_vars

\* The actors have run for a pair whose signature the store had taken, and
\* checkFinalSignature has emitted.
C15_Witness ==
    \E n \in local :
        /\ h[n].ran = actors
        /\ h[n].out # << >>
        /\ h[n].cur = << >>
        /\ \E l \in 1 .. MaxLevel : Best(h[n].store, l) # {}

\* The actors of instance n run in this step for a pair that has as many
\* contributors as its level has candidates.
C16_Step(n) ==
    /\ (h[n].cur # << >> /\ h'[n].cur = << >>
          /\ Card(h[n].cur[1].ms.bits) = Len(h[n].levels[h[n].cur[1].level].nodes)) =>
          h'[n].levels[h[n].cur[1].level].rcvCompleted
    /\ \A l \in DOMAIN h[n].levels :
          h[n].levels[l].rcvCompleted => h'[n].levels[l].rcvCompleted

\* C16: after the actors have processed a verified pair v whose signature
\* has as many contributors as level v.level has candidates, rcvCompleted of
\* that level is true, and it stays true.
C16_ReceiveCompletion == [][\A n \in Nodes : C16_Step(n)]_vars

\* The number of peers sendUpdate(l, count) hands to the network.
C17_Picked(l, count) ==
    IF ~l.sendStarted \/ l.sendPeersCt >= Len(l.nodes) THEN 0
    ELSE Min(count, Len(l.nodes))

\* C17: each time sendUpdate hands k = min(count, |candidates|) peers of a
\* level to the network, the level of the aggregator afterwards has sendPos
\* advanced by k modulo |candidates| and sendPeersCt increased by k.
C17_SendCursor ==
    \A n \in local : \A i \in DOMAIN h[n].levels :
        \A count \in {1, h[n].c.CandidateCount} :
            LET l   == [h[n].levels[i] EXCEPT !.sendStarted = TRUE]
                k   == C17_Picked(l, count)
                now == sendUpdate(h[n], l, count).h.levels[i]
            IN  k > 0 =>
                   /\ now.sendPos = (l.sendPos + k) % Len(l.nodes)
                   /\ now.sendPeersCt = l.sendPeersCt + k

---------------------------------------------------------------------------
(* Periodic updates.                                                       *)

\* The packets the next tick of instance n hands to the network.
TickSends(n) ==
    IF Running(n) /\ LockFree(h[n]) /\ ~h[n].tickerStopped
    THEN periodicUpdate(h[n], msSinceStartNow(h[n])).sent
    ELSE {}

\* C18: sendUpdate sends nothing at a level whose sendPeersCt has reached
\* the number of candidates, so once every candidate of a level has been
\* contacted with the current signature no packet is sent at that level
\* until a larger signature is recorded.  Start contacts the one candidate
\* of level 1 with the node's own signature, which never changes: no later
\* tick sends at level 1.
C18_BoundedRetransmission ==
    \A n \in local :
        /\ \A i \in DOMAIN h[n].levels :
              LET l == [h[n].levels[i] EXCEPT !.sendStarted = TRUE,
                                              !.sendPeersCt = Len(h[n].levels[i].nodes)]
              IN  sendUpdate(h[n], l, h[n].c.CandidateCount).sent = {}
        /\ h[n].started => \A p \in TickSends(n) : p.Level # 1

\* The cardinality offered to level i of hh: that of Combined(i - 1).
Offered(hh, i) == Card(Combined(hh.store, i - 1))

\* The actors of instance n run in this step; i is a level above the one of
\* the pair.
C19_Step(n) ==
    /\ \A i \in DOMAIN h[n].levels :
          h'[n].levels[i].sendSigSize >= h[n].levels[i].sendSigSize
    /\ (h[n].cur # << >> /\ h'[n].cur = << >>) =>
          \A i \in (h[n].cur[1].level + 1) .. Len(h[n].levels) :
              LET before == h[n].levels[i].sendSigSize
              IN  /\ h'[n].levels[i].sendSigSize =
                        (IF Offered(h[n], i) > before THEN Offered(h[n], i)
                         ELSE before)
                  /\ (\E p \in checkCompletedLevel(h[n], h[n].cur[1]).sent :
                          p.Level = i) =>
                        /\ before < Len(h[n].levels[i].nodes)
                        /\ h'[n].levels[i].sendSigSize = Len(h[n].levels[i].nodes)

\* C19: sendSigSize of a level never decreases and after each actor dispatch
\* is the largest combined cardinality offered to the level so far; the
\* burst of checkCompletedLevel is sent only in the step in which that
\* cardinality first reaches the number of candidates.
C19_SigToSend == [][\A n \in Nodes : C19_Step(n)]_vars

\* Level L of instance n may send: its timeout has passed since Start, or
\* its combined signature is complete.
MaySend(n, L) ==
    /\ h[n].started
    /\ \/ h[n].elapsed * LevelTimeout >= (L - 1) * LevelTimeout
       \/ Offered(h[n], L) = Len(h[n].levels[L].nodes)

\* C20: a tick that fires before Start sends nothing, a tick sends at a
\* level L > 1 only once (L-1) x LevelTimeout has passed since Start or the
\* level's combined signature is complete, and Start sends at level 1 only.
C20_StartupDelay ==
    \A n \in local :
        /\ ~h[n].started => TickSends(n) = {}
        /\ \A p \in TickSends(n) : p.Level > 1 => MaySend(n, p.Level)
        /\ (~h[n].started /\ Running(n) /\ LockFree(h[n])) =>
              \A p \in StartH(h[n]).sent : p.Level = 1

---------------------------------------------------------------------------
(* What is sent, and who touches the store.                                *)

\* The packets instance n hands to the network in its next step: by a tick,
\* by Start, or by the actors for the pair the consumer has stored.
SendsNow(n) ==
    TickSends(n)
    \cup (IF Running(n) /\ LockFree(h[n]) /\ ~h[n].started
          THEN StartH(h[n]).sent ELSE {})
    \cup (IF Running(n) /\ LockFree(h[n]) /\ h[n].cur # << >>
          THEN dispatchActors(h[n]).sent ELSE {})

C22_Step(n) == h'[n].store # h[n].store => LockFree(h[n])

\* C22: every mutation of the signature store happens while the aggregator
\* lock is held by the mutating thread: no step changes the store of an
\* instance whose lock another thread (a NewPacket call suspended on
\* Incoming) holds.
C22_StoreUnderLock == [][\A n \in Nodes : C22_Step(n)]_vars

\* A NewPacket call of instance n holds the lock and waits for room on
\* Incoming, and nothing can make room: before Start no worker runs and
\* Start waits for the lock; after Start the worker waits to hand a pair
\* over on a full Verified while the verified consumer waits for the lock.
LockDeadlock(n) ==
    /\ h[n].blocked # << >>
    /\ Len(h[n].incoming) >= IncomingCap
    /\ \/ ~h[n].started
       \/ /\ Head(h[n].incoming).ms.sigok
          /\ Len(h[n].verified) >= VerifiedCap
          /\ h[n].cur # << >>

\* C23: no deadlock on the aggregator lock: there is no reachable state in
\* which a listener holds the lock waiting to enqueue on Incoming while the
\* worker waits on Verified and the consumer waits for the lock, nor one in
\* which a NewPacket delivered before Start blocks Start forever.
C23_NoLockDeadlock == \A n \in Nodes : ~LockDeadlock(n)

---------------------------------------------------------------------------
(* isSet on its own: any number below 2^MaxBits, any index up to one above *)
(* its width.                                                              *)

\* isSet(c.id, index): the result is recorded in set.
IsSetCall(index) ==
    /\ index \in 0 .. (MaxBits + 1)
    /\ index \notin DOMAIN tree.set
    /\ tree' = [tree EXCEPT !.set =
                   [k \in DOMAIN tree.set \cup {index} |->
                       IF k = index THEN isSet(tree.id, index)
                       ELSE tree.set[k]]]
    /\ UNCHANGED <<h, net, local, dropped>>

NextBits == \E index \in 0 .. (MaxBits + 1) : IsSetCall(index)

SpecBits == InitTree /\ [][NextBits]_vars

RECURSIVE Bit(_, _)
\* Bit i of the binary expansion of nb.
Bit(nb, i) == IF i = 0 THEN nb % 2 ELSE Bit(nb \div 2, i - 1)

\* C24: isSet(nb, i) is true exactly when bit i of nb is 1, also for an
\* index above the highest set bit (isSet(7, 4) is false).
C24_IsSet ==
    /\ \A i \in DOMAIN tree.set : tree.set[i] <=> (Bit(tree.id, i) = 1)
    /\ \A i \in DOMAIN tree.set : Pow2(i) > tree.id => ~tree.set[i]
    /\ (tree.id = 7 /\ 4 \in DOMAIN tree.set) => ~tree.set[4]

\* isSet was called for 7 with index 2 and with index 4, above its highest
\* set bit.
C24_Witness ==
    /\ tree.id = 7
    /\ {2, 4} \subseteq DOMAIN tree.set
    /\ tree.set[2] /\ ~tree.set[4]

=============================================================================
